---- MODULE Spec2Model ----
(***************************************************************************)
(* COVID-19 dashboard (DeploymentWebApp.py): a Streamlit script that is    *)
(* re-executed top to bottom on every widget interaction.  The model       *)
(* covers the storage (two CSV files), the st.cache_data memo of           *)
(* load_data(), the page dispatch on the sidebar radio value, and the      *)
(* dataframe computations of the EDA page.                                 *)
(*                                                                         *)
(* Cells are records [k, n, d, s]:                                         *)
(*   k = "num"    the rational n/d (d > 0, lowest terms); float64 rounding *)
(*                is not modelled, arithmetic is exact                     *)
(*   k = "nan"    a missing value (an empty CSV cell, NaN)                 *)
(*   k = "inf"    +inf (n = 1) or -inf (n = -1)                            *)
(*   k = "log10"  the real number log10(n/d), n/d > 0                      *)
(*   k = "str"    the text s                                               *)
(*   k = "ts"     the Timestamp of day n = year*10000 + month*100 + day    *)
(*   k = "nat"    NaT                                                      *)
(*   k = "period" the monthly Period n = year*100 + month                  *)
(***************************************************************************)
EXTENDS Integers, Sequences, FiniteSets, TLC

VARIABLES
  files,         \* storage: the two CSV files, static during a process
  cache,         \* the st.cache_data entry of load_data(): <<>> or <<fg, wd>>
  run,           \* the last script run: its page, what it emitted, its globals
  thr,           \* concurrent script threads inside the cached load_data()
  compute_lock   \* the cache's compute lock: 0 (free) or the holder's id

vars == <<files, cache, run, thr, compute_lock>>

\* ------------------------------------------------------------------ bounds

MaxSnapRows == 2
MaxTsRows == 1
MaxTopRows == 11
MaxShortTopRows == 4
MaxMonthRows == 3
NumThreads == 2

\* ------------------------------------------------------------------- cells

Abs(x) == IF x < 0 THEN -x ELSE x

RECURSIVE GCD(_, _)
GCD(a, b) == IF b = 0 THEN a ELSE GCD(b, a % b)

Rat(n, d) ==
  LET g == GCD(Abs(n), Abs(d))
      sg == IF d < 0 THEN -1 ELSE 1
  IN [k |-> "num", n |-> (sg * n) \div g, d |-> Abs(d) \div g, s |-> ""]

Num(n) == [k |-> "num", n |-> n, d |-> 1, s |-> ""]
NaN == [k |-> "nan", n |-> 0, d |-> 1, s |-> ""]
PosInf == [k |-> "inf", n |-> 1, d |-> 1, s |-> ""]
NegInf == [k |-> "inf", n |-> -1, d |-> 1, s |-> ""]
Str(t) == [k |-> "str", n |-> 0, d |-> 1, s |-> t]
Timestamp(n) == [k |-> "ts", n |-> n, d |-> 1, s |-> ""]
NaT == [k |-> "nat", n |-> 0, d |-> 1, s |-> ""]
Period(n) == [k |-> "period", n |-> n, d |-> 1, s |-> ""]

\* float64 a / b (numpy: x/0 is +-inf, 0/0 and anything with NaN is NaN)
FDiv(a, b) ==
  IF a.k = "nan" \/ b.k = "nan" THEN NaN
  ELSE IF a.k = "inf" /\ b.k = "inf" THEN NaN
  ELSE IF a.k = "inf" THEN (IF b.n < 0 THEN (IF a.n > 0 THEN NegInf ELSE PosInf) ELSE a)
  ELSE IF b.k = "inf" THEN Num(0)
  ELSE IF b.n = 0 THEN (IF a.n > 0 THEN PosInf ELSE IF a.n < 0 THEN NegInf ELSE NaN)
  ELSE Rat(a.n * b.d, a.d * b.n)

\* float64 a * m for an integer m > 0
FScale(a, m) == IF a.k = "num" THEN Rat(a.n * m, a.d) ELSE a

\* float64 a + b
FAdd(a, b) ==
  IF a.k = "nan" \/ b.k = "nan" THEN NaN
  ELSE IF a.k = "inf" /\ b.k = "inf" THEN (IF a.n = b.n THEN a ELSE NaN)
  ELSE IF a.k = "inf" THEN a
  ELSE IF b.k = "inf" THEN b
  ELSE Rat(a.n * b.d + b.n * a.d, a.d * b.d)

\* a < b on non-NaN floats
FLess(a, b) ==
  IF a.k = "inf" THEN a.n < 0 /\ ~(b.k = "inf" /\ b.n < 0)
  ELSE IF b.k = "inf" THEN b.n > 0
  ELSE a.n * b.d < b.n * a.d

\* np.log10(a): -inf at 0, NaN below 0
Log10(a) ==
  IF a.k = "nan" THEN NaN
  ELSE IF a.k = "inf" THEN (IF a.n > 0 THEN PosInf ELSE NaN)
  ELSE IF a.n = 0 THEN NegInf
  ELSE IF a.n < 0 THEN NaN
  ELSE [k |-> "log10", n |-> a.n, d |-> a.d, s |-> ""]

\* ------------------------------------------------------------- sequences


\* --------------------------------------------------------------- dataframes
\* A DataFrame is [dtypes |-> [column -> dtype], rows |-> <<[column -> cell]>>];
\* the index is the RangeIndex 1..Len(rows) (written 0.. in pandas).

FullGroupedCols == {"Date", "Country/Region", "Confirmed", "Deaths", "Recovered",
                    "New cases", "New deaths"}
WorldometerCols == {"Country/Region", "Continent", "TotalCases", "TotalDeaths",
                    "TotalRecovered", "TotalTests"}

Column(df, c) == [i \in DOMAIN df.rows |-> df.rows[i][c]]

\* df[c] = vals: add or overwrite a column in place
SetColumn(df, c, dtype, vals) ==
  [dtypes |-> [x \in DOMAIN df.dtypes \cup {c} |-> IF x = c THEN dtype ELSE df.dtypes[x]],
   rows |-> [i \in DOMAIN df.rows |->
               [x \in DOMAIN df.dtypes \cup {c} |-> IF x = c THEN vals[i] ELSE df.rows[i][x]]]]

\* the dtype pd.read_csv infers for a column: object for a column with no
\* rows or with text, int64 for whole numbers, float64 once a cell is missing
InferDtype(cells) ==
  IF cells = <<>> THEN "object"
  ELSE IF \A i \in DOMAIN cells : cells[i].k = "num" /\ cells[i].d = 1 THEN "int64"
  ELSE IF \A i \in DOMAIN cells : cells[i].k \in {"num", "nan"} THEN "float64"
  ELSE "object"

IsNumericDtype(t) == t \in {"int64", "float64"}

\* pd.read_csv(path) on a file that exists
read_csv(file) ==
  [dtypes |-> [c \in file.header |-> InferDtype([i \in DOMAIN file.rows |-> file.rows[i][c]])],
   rows |-> file.rows]

\* ------------------------------------------------------ EDA: time series

\* the date texts the model's files hold, and the day each names
ParseDate(text) ==
  CASE text = "2020-01-22" -> 20200122
    [] text = "2020-01-23" -> 20200123
    [] text = "2020-02-01" -> 20200201
    [] text = "2020-12-31" -> 20201231
    [] text = "2021-01-01" -> 20210101

\* pd.to_datetime on one cell: text is parsed, a missing cell becomes NaT,
\* a Timestamp stays
to_datetime(c) ==
  IF c.k = "str" THEN Timestamp(ParseDate(c.s))
  ELSE IF c.k = "nan" THEN NaT
  ELSE c

\* year and month only, as in a date column grouped by .dt.month
to_month_of_year(c) == IF c.k = "ts" THEN Period((c.n \div 100) % 100) ELSE NaT

\* .dt.to_period("M") on one cell
to_period(c) == IF c.k = "ts" THEN Period(c.n \div 100) ELSE NaT

\* .dt.to_timestamp() on one cell: the first day of the month
to_timestamp(c) == IF c.k = "period" THEN Timestamp(c.n * 100 + 1) ELSE NaT

RECURSIVE SortAsc(_)
SortAsc(S) ==
  IF S = {} THEN <<>>
  ELSE LET m == CHOOSE x \in S : \A y \in S : x <= y
       IN <<m>> \o SortAsc(S \ {m})

RECURSIVE FSumOver(_, _)
FSumOver(vals, S) ==
  IF S = {} THEN Num(0)
  ELSE LET i == CHOOSE x \in S : TRUE
       IN FAdd(vals[i], FSumOver(vals, S \ {i}))

\* one group's .sum() of a column: missing cells are skipped
GroupSum(rows, keys, key, c) ==
  FSumOver([i \in DOMAIN rows |-> rows[i][c]],
           {i \in DOMAIN rows : keys[i] = key /\ rows[i][c].k # "nan"})

\* the group keys in ascending order; a row with a missing key is in no group
GroupKeys(keys) ==
  SortAsc({keys[i].n : i \in {j \in DOMAIN keys : keys[j].k \notin {"nat", "nan"}}})

\* a group key of the kind the grouping column holds ("ts" or "period")
GroupKey(kind, n) == [k |-> kind, n |-> n, d |-> 1, s |-> ""]

GroupRows(rows, keys, cols, kind, ks) ==
  [g \in DOMAIN ks |->
     [c \in cols \cup {"Date"} |->
        IF c = "Date" THEN GroupKey(kind, ks[g])
        ELSE GroupSum(rows, keys, GroupKey(kind, ks[g]), c)]]

\* groupby(keys)[cols].sum().reset_index(): one row per key, keys ascending
GroupBySum(df, keys, cols, kind) ==
  GroupRows(df.rows, keys, cols, kind, GroupKeys(keys))

\* monthly["Date"] = monthly["Date"].dt.to_timestamp(), line 75
MonthStarts(grouped) ==
  [g \in DOMAIN grouped |->
     [c \in DOMAIN grouped[g] |->
        IF c = "Date" THEN to_timestamp(grouped[g][c]) ELSE grouped[g][c]]]

\* full_grouped["Date"].dt.to_period("M"), line 74
MonthOf(dates) == [i \in DOMAIN dates |-> to_period(dates[i])]

\* lines 74-75
monthly(full_grouped) ==
  MonthStarts(GroupBySum(full_grouped, MonthOf(Column(full_grouped, "Date")),
                         {"Confirmed", "Deaths", "Recovered"}, "period"))

\* line 175
global_time(full_grouped) ==
  GroupBySum(full_grouped, Column(full_grouped, "Date"), {"New cases", "New deaths"}, "ts")

\* ---------------------------------------------------------- EDA: snapshot

\* row j is ranked before row i with keep="last": a larger value, or an equal
\* value later in the table
RankedBeforeKeepLast(vals, j, i) ==
  FLess(vals[i], vals[j]) \/ (~FLess(vals[j], vals[i]) /\ j > i)

\* row j is ranked before row i (keep="first"): a larger value, or an equal
\* value earlier in the table
RankedBefore(vals, j, i) ==
  FLess(vals[i], vals[j]) \/ (~FLess(vals[j], vals[i]) /\ j < i)

RECURSIVE SelectLargest(_, _, _)

PickThenRest(vals, cand, n, i) == <<i>> \o SelectLargest(vals, cand \ {i}, n - 1)

\* the first n of the candidate rows in ranking order: the row that no other
\* candidate is ranked before, then the first n - 1 of the rest
SelectLargest(vals, cand, n) ==
  IF n = 0 \/ cand = {} THEN <<>>
  ELSE PickThenRest(vals, cand, n,
                    CHOOSE i \in cand : \A j \in cand \ {i} : ~RankedBefore(vals, j, i))

\* the ranked rows, then missing values in index order while fewer than n
\* rows are selected
FillWithMissing(top, nans, n) ==
  top \o SubSeq(nans, 1, IF n - Len(top) < Len(nans) THEN n - Len(top) ELSE Len(nans))

\* Series.nlargest(n): the n largest values, descending, then missing values;
\* the result is the sequence of index labels
SeriesNLargest(vals, n) ==
  FillWithMissing(SelectLargest(vals, {i \in DOMAIN vals : vals[i].k # "nan"}, n),
                  SortAsc({i \in DOMAIN vals : vals[i].k = "nan"}), n)

\* DataFrame.nlargest raises TypeError on a column that is not numeric
nlargest_raises(df, c) == ~IsNumericDtype(df.dtypes[c])

\* the rows at the index labels idx, columns "Country/Region" and c
TakeRows(rows, idx, c) ==
  [index |-> idx,
   rows |-> [p \in DOMAIN idx |-> [x \in {"Country/Region", c} |-> rows[idx[p]][x]]]]

\* df.nlargest(n, c)[["Country/Region", c]]
nlargest(df, n, c) == TakeRows(df.rows, SeriesNLargest(Column(df, c), n), c)

\* (df[num] / df["TotalCases"]) * 100, lines 108 and 188
RatioPercent(df, num) ==
  [i \in DOMAIN df.rows |-> FScale(FDiv(df.rows[i][num], df.rows[i]["TotalCases"]), 100)]

\* continent names in sort order
ContinentOrder == <<"Asia", "Europe">>

\* the mean of the cells at the rows S, NaN when there is none
MeanOver(vals, S) == IF S = {} THEN NaN ELSE FDiv(FSumOver(vals, S), Num(Cardinality(S)))

\* one group's .mean(): missing cells are skipped
GroupMean(rows, cont, c) ==
  MeanOver([i \in DOMAIN rows |-> rows[i][c]],
           {i \in DOMAIN rows : rows[i]["Continent"] = Str(cont) /\ rows[i][c].k # "nan"})

\* the continents that have a row, in sort order
ContinentsPresent(rows) ==
  SelectSeq(ContinentOrder,
            LAMBDA cont : \E i \in DOMAIN rows : rows[i]["Continent"] = Str(cont))

\* .sort_values(ascending=False): largest mean first, missing means last
SortedMeans(present, means, order) ==
  [p \in DOMAIN order |-> [Continent |-> present[order[p]], mean |-> means[order[p]]]]

GroupMeans(rows, c, present) == [g \in DOMAIN present |-> GroupMean(rows, present[g], c)]

MeansOfPresent(present, means) ==
  SortedMeans(present, means, SeriesNLargest(means, Len(means)))

\* df.groupby("Continent")[c].mean().sort_values(ascending=False): one entry
\* per continent present
ContinentMeanOf(rows, c, present) == MeansOfPresent(present, GroupMeans(rows, c, present))

ContinentMean(df, c) == ContinentMeanOf(df.rows, c, ContinentsPresent(df.rows))

\* pd.to_numeric(col, errors="coerce"): numbers stay, anything else is NaN
to_numeric(c) == IF c.k \in {"num", "inf", "nan"} THEN c ELSE NaN

\* np.log10(col + 1)
LogPlusOne(c) == Log10(FAdd(c, Num(1)))

\* ------------------------------------------------------------------ pages

\* the labels of the sidebar radio, line 16 (their emoji left out)
Pages == {"Data Overview", "Data Cleaning", "EDA & Charts", "Business Insights",
          "Recommendations"}

NoFrame == [dtypes |-> <<>>, rows |-> <<>>]
NoTop == [index |-> <<>>, rows |-> <<>>]

\* what a page body leaves behind: the elements it emitted, the exception that
\* ended it ("" for none), the module's two tables and the tables it derived
NoBody ==
  [error |-> "", emitted |-> <<>>, full_grouped |-> NoFrame, worldometer_data |-> NoFrame,
   duplicates |-> <<>>, monthly |-> <<>>, top_confirmed |-> NoTop, top_deaths |-> NoTop,
   top_recovered |-> NoTop, continent_cfr |-> <<>>, global_time |-> <<>>,
   continent_recovery |-> <<>>]

\* df.duplicated().sum(): the rows equal to an earlier row
Duplicated(df) ==
  Cardinality({i \in DOMAIN df.rows : \E j \in 1..(i - 1) : df.rows[j] = df.rows[i]})

\* lines 30-42
DataOverviewBody(fg, wd) ==
  [NoBody EXCEPT !.full_grouped = fg, !.worldometer_data = wd,
     !.emitted = <<"subheader", "markdown", "write", "tabs", "dataframe", "dataframe">>]

\* lines 47-62: the cleaning rules are text; the tables are only counted
DataCleaningBody(fg, wd) ==
  [NoBody EXCEPT !.full_grouped = fg, !.worldometer_data = wd,
     !.duplicates = <<Duplicated(fg), Duplicated(wd)>>,
     !.emitted = <<"subheader", "write", "metric", "metric", "write", "markdown">>]

\* the column assignments of lines 108-143 and 188 on worldometer_data
WithCFR(wd) == SetColumn(wd, "CFR(%)", "float64", RatioPercent(wd, "TotalDeaths"))

NumericDtype(vals) ==
  IF \A i \in DOMAIN vals : vals[i].k = "num" /\ vals[i].d = 1 THEN "int64" ELSE "float64"

WithNumericColumn(wd, c, vals) == SetColumn(wd, c, NumericDtype(vals), vals)

WithNumeric(wd, c) == WithNumericColumn(wd, c, [i \in DOMAIN wd.rows |-> to_numeric(wd.rows[i][c])])

WithLog(wd, c) == SetColumn(wd, "Log_" \o c, "float64", [i \in DOMAIN wd.rows |-> LogPlusOne(wd.rows[i][c])])

WithRecoveryRate(wd) ==
  SetColumn(wd, "RecoveryRate(%)", "float64", RatioPercent(wd, "TotalRecovered"))

\* lines 71 and 174
WithDates(fg) == SetColumn(fg, "Date", "datetime64[ns]", [i \in DOMAIN fg.rows |-> to_datetime(fg.rows[i]["Date"])])

\* lines 107-196, once the three rankings are made: wd1 has CFR(%), wd2 the
\* numeric and log columns too, wd3 every derived column
EDAFrom107(upto94, fg2, wd1, wd2, wd3) ==
  [upto94 EXCEPT
     !.continent_cfr = ContinentMean(wd1, "CFR(%)"),
     !.global_time = global_time(fg2),
     !.continent_recovery = ContinentMean(wd3, "RecoveryRate(%)"),
     !.full_grouped = fg2,
     !.worldometer_data = wd3,
     !.emitted = @ \o
        <<"pyplot", "info", "write", "pyplot", "info", "write", "plotly_chart",
          "info", "write", "pyplot", "info", "write", "pyplot", "info", "write",
          "pyplot", "info">>]

EDAFrom138(upto94, fg1, wd1, wd2) ==
  EDAFrom107(upto94, WithDates(fg1), wd1, wd2, WithRecoveryRate(wd2))

EDAFrom108(upto94, fg1, wd1) ==
  EDAFrom138(upto94, fg1, wd1,
             WithLog(WithLog(WithNumeric(WithNumeric(wd1, "TotalTests"), "TotalCases"),
                             "TotalTests"), "TotalCases"))

\* lines 92-94: the first ranking of a column that is not numeric raises
EDAFrom92(upto91, fg1, wd) ==
  IF \E c \in {"TotalCases", "TotalDeaths", "TotalRecovered"} : nlargest_raises(wd, c)
  THEN [upto91 EXCEPT !.error = "TypeError"]
  ELSE EDAFrom108([upto91 EXCEPT
                     !.top_confirmed = nlargest(wd, 10, "TotalCases"),
                     !.top_deaths = nlargest(wd, 10, "TotalDeaths"),
                     !.top_recovered = nlargest(wd, 10, "TotalRecovered")],
                  fg1, WithCFR(wd))

\* lines 74-91
EDAFrom74(fg1, wd) ==
  EDAFrom92([NoBody EXCEPT !.full_grouped = fg1, !.worldometer_data = wd,
               !.monthly = monthly(fg1),
               !.emitted = <<"subheader", "write", "pyplot", "info", "write">>],
            fg1, wd)

\* lines 67-196; the charts are emitted elements, their drawing is not modelled
EDABody(fg, wd) == EDAFrom74(WithDates(fg), wd)

\* lines 202-220
BusinessInsightsBody(fg, wd) ==
  [NoBody EXCEPT !.full_grouped = fg, !.worldometer_data = wd,
     !.emitted = <<"subheader", "markdown">>]

\* lines 225-233
RecommendationsBody(fg, wd) ==
  [NoBody EXCEPT !.full_grouped = fg, !.worldometer_data = wd,
     !.emitted = <<"subheader", "markdown">>]

\* the if/elif chain of lines 30-233: it has no else branch
PageBody(page, fg, wd) ==
  IF page = "Data Overview" THEN DataOverviewBody(fg, wd)
  ELSE IF page = "Data Cleaning" THEN DataCleaningBody(fg, wd)
  ELSE IF page = "EDA & Charts" THEN EDABody(fg, wd)
  ELSE IF page = "Business Insights" THEN BusinessInsightsBody(fg, wd)
  ELSE IF page = "Recommendations" THEN RecommendationsBody(fg, wd)
  ELSE [NoBody EXCEPT !.full_grouped = fg, !.worldometer_data = wd]

\* ----------------------------------------------------------------- loading

\* lines 20-23: the body of load_data; reads counts its pd.read_csv calls
load_data(f) ==
  IF ~f.full_grouped.exists
  THEN [error |-> "FileNotFoundError", reads |-> 1, value |-> <<>>]
  ELSE IF ~f.worldometer_data.exists
  THEN [error |-> "FileNotFoundError", reads |-> 2, value |-> <<>>]
  ELSE [error |-> "", reads |-> 2,
        value |-> <<read_csv(f.full_grouped), read_csv(f.worldometer_data)>>]

\* what a call that ran the body returns, and the entry it leaves
Stored(r) == [error |-> r.error, reads |-> r.reads, value |-> r.value, cache |-> r.value]

\* load_data() with a cache that is never hit: the body runs on every call
load_data_uncached(c, f) == Stored(load_data(f))

\* line 19, @st.cache_data: a hit returns a copy of the stored value and runs
\* nothing; a miss runs the body and stores what it returns; an exception is
\* raised to the caller and nothing is stored
load_data_cached(c, f) ==
  IF c # <<>> THEN [error |-> "", reads |-> 0, value |-> c, cache |-> c]
  ELSE Stored(load_data(f))

\* a cache that hands out the stored object itself: what the caller assigns
\* into its tables is assigned into the entry
CacheEntryShared(stored, fg, wd) == IF stored = <<>> THEN stored ELSE <<fg, wd>>

\* line 19, @st.cache_data: the caller gets its own copy, so the entry is what
\* was stored whatever the caller did to its tables fg and wd
CacheEntryAfterRun(stored, fg, wd) == stored

\* ------------------------------------------------------------ a script run

NoRun == [page |-> "", reads |-> 0, loaded |-> <<>>, body |-> NoBody]

\* lines 27-252 after a load that returned: the page body, then the style
\* markdown of line 252 unless the body raised
AfterLoad(page, L, B) ==
  [run |-> [page |-> page, reads |-> L.reads, loaded |-> L.value,
            body |-> [B EXCEPT !.emitted =
                        <<"title", "sidebar.header", "sidebar.radio">> \o @ \o
                        (IF B.error = "" THEN <<"markdown">> ELSE <<"exception">>)]],
   cache |-> CacheEntryAfterRun(L.cache, B.full_grouped, B.worldometer_data)]

\* lines 9-25: the title and the sidebar are emitted, then load_data() is
\* called; its exception ends the run
AfterChrome(page, L) ==
  IF L.error # ""
  THEN [run |-> [page |-> page, reads |-> L.reads, loaded |-> <<>>,
                 body |-> [NoBody EXCEPT
                             !.error = L.error,
                             !.emitted = <<"title", "sidebar.header", "sidebar.radio",
                                           "exception">>]],
        cache |-> L.cache]
  ELSE AfterLoad(page, L, PageBody(page, L.value[1], L.value[2]))

\* one execution of the script, lines 9-252, with the radio at `page`: the run
\* it leaves behind and the cache entry after it
Script(page) == AfterChrome(page, load_data_cached(cache, files))

\* a rerun replaces the last run and leaves the cache entry the script left
Rerun(S) == run' = S.run /\ cache' = S.cache /\ UNCHANGED <<files, thr, compute_lock>>

DataOverview == Rerun(Script("Data Overview"))

DataCleaning == Rerun(Script("Data Cleaning"))

EDACharts == Rerun(Script("EDA & Charts"))

BusinessInsights == Rerun(Script("Business Insights"))

Recommendations == Rerun(Script("Recommendations"))

Next == DataOverview \/ DataCleaning \/ EDACharts \/ BusinessInsights \/ Recommendations

\* the page dispatch taken as a function of any view name: the five labels
\* and one name the radio does not offer
ViewNames == Pages \cup {"Settings"}

RenderableFor == \E v \in ViewNames : Rerun(Script(v))

\* ------------------------------------------- concurrent first load_data()
\* Streamlit runs each session's script in its own thread; the cache is
\* shared.  st.cache_data looks the entry up without a lock; on a miss it
\* takes the entry's compute lock, looks again, and only then runs the body.

\* no lock at all: every waiting thread goes on
LockAlwaysFree(lock) == TRUE

\* the compute lock can be taken when no thread holds it
LockFree(lock) == lock = 0

Call(t) ==
  /\ thr[t].pc = "idle"
  /\ thr' = [thr EXCEPT ![t] = IF cache # <<>>
                               THEN [pc |-> "returned", reads |-> 0, value |-> cache]
                               ELSE [@ EXCEPT !.pc = "wait"]]
  /\ UNCHANGED <<files, cache, run, compute_lock>>

Acquire(t) ==
  /\ thr[t].pc = "wait"
  /\ LockFree(compute_lock)
  /\ compute_lock' = t
  /\ thr' = [thr EXCEPT ![t].pc = "locked"]
  /\ UNCHANGED <<files, cache, run>>

Recheck(t) ==
  /\ thr[t].pc = "locked"
  /\ IF cache # <<>>
     THEN /\ thr' = [thr EXCEPT ![t] = [pc |-> "returned", reads |-> 0, value |-> cache]]
          /\ compute_lock' = 0
     ELSE /\ thr' = [thr EXCEPT ![t].pc = "compute"]
          /\ UNCHANGED compute_lock
  /\ UNCHANGED <<files, cache, run>>

Compute(t) ==
  /\ thr[t].pc = "compute"
  /\ thr' = [thr EXCEPT ![t] = [pc |-> "store", reads |-> load_data(files).reads,
                                value |-> load_data(files).value]]
  /\ UNCHANGED <<files, cache, run, compute_lock>>

Store(t) ==
  /\ thr[t].pc = "store"
  /\ cache' = thr[t].value
  /\ compute_lock' = 0
  /\ thr' = [thr EXCEPT ![t].pc = "returned"]
  /\ UNCHANGED <<files, run>>

NextConcurrent ==
  \E t \in 1..NumThreads : Call(t) \/ Acquire(t) \/ Recheck(t) \/ Compute(t) \/ Store(t)

\* ------------------------------------------------------------------- files

SnapRow(country, continent, cases, deaths, recovered, tests) ==
  [c \in WorldometerCols |->
     CASE c = "Country/Region" -> Str(country)
       [] c = "Continent" -> Str(continent)
       [] c = "TotalCases" -> cases
       [] c = "TotalDeaths" -> deaths
       [] c = "TotalRecovered" -> recovered
       [] c = "TotalTests" -> tests]

TsRow(date, country, confirmed, deaths, recovered, newCases, newDeaths) ==
  [c \in FullGroupedCols |->
     CASE c = "Date" -> date
       [] c = "Country/Region" -> Str(country)
       [] c = "Confirmed" -> confirmed
       [] c = "Deaths" -> deaths
       [] c = "Recovered" -> recovered
       [] c = "New cases" -> newCases
       [] c = "New deaths" -> newDeaths]

SeqsUpTo(R, K) == UNION {[1..k -> R] : k \in 0..K}

MissingFile == [exists |-> FALSE, header |-> {}, rows |-> <<>>]
TsFile(rows) == [exists |-> TRUE, header |-> FullGroupedCols, rows |-> rows]
SnapFile(rows) == [exists |-> TRUE, header |-> WorldometerCols, rows |-> rows]

\* snapshot rows of a session: a clean row, a row with no cases but deaths, a
\* row with missing deaths, tests and recoveries, a row with a negative count
SessionSnapRows ==
  { SnapRow("Italy", "Europe", Num(100), Num(10), Num(50), Num(1000)),
    SnapRow("Vatican", "Europe", Num(0), Num(5), Num(0), Num(0)),
    SnapRow("India", "Asia", Num(40), NaN, NaN, NaN),
    SnapRow("Laos", "Asia", Num(20), Num(0), Num(20), Num(-1)) }

SessionTsRows ==
  { TsRow(Str("2020-01-22"), "Italy", Num(100), Num(1), Num(0), Num(100), Num(1)),
    TsRow(Str("2020-02-01"), "India", Num(40), NaN, Num(3), NaN, Num(0)) }

SessionFiles ==
  [full_grouped : {MissingFile} \cup {TsFile(r) : r \in SeqsUpTo(SessionTsRows, MaxTsRows)},
   worldometer_data :
     {MissingFile} \cup {SnapFile(r) : r \in SeqsUpTo(SessionSnapRows, MaxSnapRows)}]

IdleThreads == [t \in 1..NumThreads |-> [pc |-> "idle", reads |-> 0, value |-> <<>>]]

Init ==
  /\ files \in SessionFiles
  /\ cache = <<>>
  /\ run = NoRun
  /\ thr = IdleThreads
  /\ compute_lock = 0

Spec == Init /\ [][Next]_vars

SpecSelector == Init /\ [][RenderableFor]_vars

\* snapshot rows to rank: the three ranked columns hold equal values, distinct
\* values and missing values
TopSnapRows ==
  { SnapRow("Italy", "Europe", Num(2), Num(1), NaN, Num(5)),
    SnapRow("India", "Asia", Num(1), Num(1), Num(3), Num(5)) }

\* a third row, for short tables with three different values in a column
ThirdSnapRow == SnapRow("Laos", "Asia", Num(3), Num(0), Num(1), Num(5))

InitTopN ==
  /\ files \in [full_grouped : {TsFile(<<>>)},
                worldometer_data :
                  {SnapFile(r) : r \in SeqsUpTo(TopSnapRows, MaxTopRows)
                                       \cup SeqsUpTo(TopSnapRows \cup {ThirdSnapRow},
                                                     MaxShortTopRows)}]
  /\ cache = <<>>
  /\ run = NoRun
  /\ thr = IdleThreads
  /\ compute_lock = 0

SpecTopN == InitTopN /\ [][EDACharts]_vars

\* time-series rows: two days of one month, the last day of a year and the
\* first of the next, a missing count, a missing date
MonthTsRows ==
  { TsRow(Str("2020-01-22"), "Italy", Num(100), Num(1), Num(0), Num(100), Num(1)),
    TsRow(Str("2020-01-23"), "India", Num(100), Num(2), Num(1), Num(0), Num(1)),
    TsRow(Str("2020-12-31"), "Italy", Num(7), Num(2), Num(1), Num(3), Num(0)),
    TsRow(Str("2021-01-01"), "Italy", Num(9), Num(3), Num(2), Num(2), Num(1)),
    TsRow(Str("2020-01-22"), "Laos", NaN, NaN, Num(4), NaN, Num(0)),
    TsRow(NaN, "Laos", Num(5), Num(1), Num(1), Num(5), Num(1)) }

InitMonthly ==
  /\ files \in [full_grouped : {TsFile(r) : r \in SeqsUpTo(MonthTsRows, MaxMonthRows)},
                worldometer_data :
                  {SnapFile(<<SnapRow("Italy", "Europe", Num(100), Num(10), Num(50),
                                      Num(1000))>>)}]
  /\ cache = <<>>
  /\ run = NoRun
  /\ thr = IdleThreads
  /\ compute_lock = 0

SpecMonthly == InitMonthly /\ [][EDACharts]_vars

InitConcurrent ==
  /\ files \in [full_grouped : {TsFile(r) : r \in SeqsUpTo(SessionTsRows, MaxTsRows)},
                worldometer_data : {SnapFile(<<r>>) : r \in SessionSnapRows}]
  /\ cache = <<>>
  /\ run = NoRun
  /\ thr = IdleThreads
  /\ compute_lock = 0

SpecConcurrent == InitConcurrent /\ [][NextConcurrent]_vars

\* ================================================================== claims

EDAPage == "EDA & Charts"

\* the last run rendered the EDA page to its end
EDADone == run.page = EDAPage /\ run.loaded # <<>> /\ run.body.error = ""

\* the last run's load_data() raised
LoadFailed == run.page # "" /\ run.loaded = <<>>

\* ---- C1

\* the mean of 100 * num / TotalCases over a continent's rows with cases # 0
\* and a ratio that is defined
MeanOverNonZeroCases(rows, cont, num) ==
  LET ratio == [i \in DOMAIN rows |-> FScale(FDiv(rows[i][num], rows[i]["TotalCases"]), 100)]
      S == {i \in DOMAIN rows : /\ rows[i]["Continent"] = Str(cont)
                                /\ rows[i]["TotalCases"].k = "num"
                                /\ rows[i]["TotalCases"].n # 0
                                /\ ratio[i].k # "nan"}
  IN IF S = {} THEN NaN ELSE FDiv(FSumOver(ratio, S), Num(Cardinality(S)))

\* C1: after an EDA render every snapshot row with TotalCases = 0 has a null
\* CFR(%) and RecoveryRate(%), and each continent's mean CFR and mean recovery
\* rate is the mean over its rows with TotalCases # 0.
C1_ZeroCasesExcluded ==
  EDADone =>
    LET wd == run.body.worldometer_data
        raw == run.loaded[2].rows
    IN /\ \A i \in DOMAIN wd.rows :
            wd.rows[i]["TotalCases"] = Num(0) =>
              wd.rows[i]["CFR(%)"].k = "nan" /\ wd.rows[i]["RecoveryRate(%)"].k = "nan"
       /\ \A g \in DOMAIN run.body.continent_cfr :
            run.body.continent_cfr[g].mean =
              MeanOverNonZeroCases(raw, run.body.continent_cfr[g].Continent, "TotalDeaths")
       /\ \A g \in DOMAIN run.body.continent_recovery :
            run.body.continent_recovery[g].mean =
              MeanOverNonZeroCases(raw, run.body.continent_recovery[g].Continent,
                                   "TotalRecovered")

\* ---- C2

CleanSnapshotRow(r) ==
  \A c \in {"TotalCases", "TotalDeaths", "TotalRecovered", "TotalTests"} :
    r[c].k = "num" /\ r[c].n >= 0

\* C3: after an EDA render every snapshot row that was ranked, averaged or
\* log-transformed has TotalCases, TotalDeaths, TotalRecovered and TotalTests
\* present and >= 0.
C3_CleanedBeforeAggregation ==
  EDADone =>
    /\ \A i \in DOMAIN run.body.worldometer_data.rows :
         CleanSnapshotRow(run.body.worldometer_data.rows[i])
    /\ \A i \in DOMAIN run.body.top_confirmed.index :
         CleanSnapshotRow(run.loaded[2].rows[run.body.top_confirmed.index[i]])

\* ---- C4

\* a >= b where a missing value ranks below every number
RankGE(a, b) == b.k = "nan" \/ (a.k # "nan" /\ ~FLess(a, b))
RankEQ(a, b) == RankGE(a, b) /\ RankGE(b, a)

TopNCorrect(rows, top, field, n) ==
  LET idx == top.index
  IN /\ Len(idx) = (IF Len(rows) < n THEN Len(rows) ELSE n)
     /\ \A p \in DOMAIN idx : idx[p] \in DOMAIN rows
     /\ \A p, q \in DOMAIN idx : p # q => idx[p] # idx[q]
     /\ \A p, q \in DOMAIN idx :
          p < q => /\ RankGE(rows[idx[p]][field], rows[idx[q]][field])
                   /\ (RankEQ(rows[idx[p]][field], rows[idx[q]][field]) => idx[p] < idx[q])
     /\ \A p \in DOMAIN idx : \A j \in DOMAIN rows :
          (\A q \in DOMAIN idx : idx[q] # j) => RankGE(rows[idx[p]][field], rows[j][field])
     /\ \A p \in DOMAIN idx :
          /\ top.rows[p][field] = rows[idx[p]][field]
          /\ top.rows[p]["Country/Region"] = rows[idx[p]]["Country/Region"]

\* C4: the three rankings of an EDA render hold min(10, rows) rows each, taken
\* from the table, in descending order of the ranked column (a missing value
\* below every number), equal values in original row order, and no row left
\* out ranks above a row returned.
C4_TopTenRanked ==
  EDADone =>
    /\ TopNCorrect(run.loaded[2].rows, run.body.top_confirmed, "TotalCases", 10)
    /\ TopNCorrect(run.loaded[2].rows, run.body.top_deaths, "TotalDeaths", 10)
    /\ TopNCorrect(run.loaded[2].rows, run.body.top_recovered, "TotalRecovered", 10)

\* a table of more than ten rows was ranked: ten returned, among them two
\* rows with equal TotalCases and two with different TotalCases, one left out
C4_Witness ==
  /\ EDADone
  /\ Len(run.loaded[2].rows) > 10
  /\ Len(run.body.top_confirmed.index) = 10
  /\ \E p, q \in 1..10 :
       /\ p < q
       /\ run.body.top_confirmed.rows[p]["TotalCases"] =
            run.body.top_confirmed.rows[q]["TotalCases"]
  /\ \E p, q \in 1..10 :
       run.body.top_confirmed.rows[p]["TotalCases"] #
         run.body.top_confirmed.rows[q]["TotalCases"]

\* ---- C5

\* year*100 + month of a raw time-series row that has a date
YearMonth(r) == ParseDate(r["Date"].s) \div 100

RECURSIVE CountSum(_, _, _)
CountSum(rows, S, c) ==
  IF S = {} THEN 0
  ELSE LET i == CHOOSE x \in S : TRUE
       IN (IF rows[i][c].k = "num" THEN rows[i][c].n ELSE 0) + CountSum(rows, S \ {i}, c)

\* C5: the monthly trend of an EDA render has one row per (year, month) that
\* occurs in the time series, months strictly ascending, each row dated the
\* first of its month and holding the sums of Confirmed, Deaths and Recovered
\* over all records of that month.
C5_MonthlyTrend ==
  EDADone =>
    LET rows == run.loaded[1].rows
        dated == {i \in DOMAIN rows : rows[i]["Date"].k = "str"}
        months == {YearMonth(rows[i]) : i \in dated}
        M == run.body.monthly
    IN /\ Len(M) = Cardinality(months)
       /\ \A g \in DOMAIN M :
            /\ M[g]["Date"].k = "ts"
            /\ M[g]["Date"].n % 100 = 1
            /\ (M[g]["Date"].n \div 100) \in months
            /\ \A c \in {"Confirmed", "Deaths", "Recovered"} :
                 M[g][c] = Num(CountSum(rows, {i \in dated : YearMonth(rows[i]) =
                                                             M[g]["Date"].n \div 100}, c))
       /\ \A g, h \in DOMAIN M : g < h => M[g]["Date"].n < M[h]["Date"].n

\* three records of January 2020 with Confirmed = 100 gave the single row
\* 2020-01 with Confirmed = 300
C5_Witness ==
  /\ EDADone
  /\ Len(run.loaded[1].rows) = 3
  /\ \A i \in 1..3 : run.loaded[1].rows[i]["Confirmed"] = Num(100)
  /\ Len(run.body.monthly) = 1
  /\ run.body.monthly[1]["Date"] = Timestamp(20200101)
  /\ run.body.monthly[1]["Confirmed"] = Num(300)

\* ---- C6

\* C6: the run that first gets tables from load_data() reads each CSV once and
\* stores what it got; every run after that reads no CSV and gets the stored
\* tables.
C6_LoaderMemoized ==
  [][/\ (cache # <<>>) => (run'.reads = 0 /\ run'.loaded = cache)
     /\ (cache = <<>> /\ cache' # <<>>) => (run'.reads = 2 /\ run'.loaded = cache')]_vars

\* a run was served from the cache
C6_Witness == cache # <<>> /\ run.page # "" /\ run.reads = 0 /\ run.loaded = cache

\* ---- C7

\* C7: the cached tables are the two files as pd.read_csv parses them,
\* whatever pages were rendered, and every run's load_data() returned them.
C7_RawTablesReadOnly ==
  cache # <<>> =>
    /\ cache[1] = read_csv(files.full_grouped)
    /\ cache[2] = read_csv(files.worldometer_data)
    /\ run.loaded # <<>> => run.loaded = cache

\* an EDA render served from the cache has converted Date and added columns
\* in its own tables
C7_Witness ==
  /\ EDADone
  /\ run.reads = 0
  /\ run.body.full_grouped # cache[1]
  /\ "CFR(%)" \in DOMAIN run.body.worldometer_data.dtypes
  /\ "CFR(%)" \notin DOMAIN cache[2].dtypes

\* ---- C8

\* C8: a run whose load_data() fails ends with the error DataUnavailable and
\* has emitted no page element.
C8_LoadFailureRendersNothing ==
  LoadFailed => run.body.error = "DataUnavailable" /\ run.body.emitted = <<>>

\* ---- C9

\* C9: among concurrent first load_data() calls at most one thread reads the
\* CSV files, it reads each once, and every thread that returned holds the
\* cached tables.
C9_SingleFlight ==
  /\ Cardinality({t \in DOMAIN thr : thr[t].reads > 0}) <= 1
  /\ \A t \in DOMAIN thr : thr[t].reads \in {0, 2}
  /\ \A t \in DOMAIN thr : thr[t].pc = "returned" => thr[t].value = cache /\ cache # <<>>
  /\ (\A t \in DOMAIN thr : thr[t].pc = "returned") =>
       Cardinality({t \in DOMAIN thr : thr[t].reads = 2}) = 1

\* two first calls overlap: one thread has read the files under the lock and
\* not stored them yet, another has missed the cache and waits for the lock
C9_Witness ==
  \E t, u \in DOMAIN thr :
    /\ thr[t].pc = "store" /\ thr[t].reads = 2 /\ compute_lock = t
    /\ thr[u].pc = "wait"

\* ---- C10

\* C10: an EDA render over an empty time-series or snapshot table ends without
\* an error, and what it derives from the empty table is empty.
C10_EmptyTablesAggregate ==
  (run.page = EDAPage /\ run.loaded # <<>>) =>
    /\ (run.loaded[1].rows = <<>> \/ run.loaded[2].rows = <<>>) => run.body.error = ""
    /\ run.loaded[1].rows = <<>> =>
         run.body.monthly = <<>> /\ (run.body.error = "" => run.body.global_time = <<>>)
    /\ (run.loaded[2].rows = <<>> /\ run.body.error = "") =>
         /\ run.body.top_confirmed.index = <<>>
         /\ run.body.continent_cfr = <<>>
         /\ run.body.continent_recovery = <<>>

====
